---------------------------- MODULE Spec2Model ----------------------------
(***************************************************************************)
(* A model of ai-practice/scripts/02_generate_notes.py: the Note and       *)
(* NotesResponse schema, and validate_and_save_notes (sanitize the         *)
(* response text, json.loads, the NotesResponse constructor, json.dump to  *)
(* destination file, return the notes or None).                            *)
(*                                                                         *)
(* A Python str is a sequence of characters, each a one-character string   *)
(* (the grave accent is the string BT).  Python values are records tagged  *)
(* with their type, [t |-> "int", n |-> 3]; indices named *_idx are        *)
(* Python's 0-based indices, as in the source.                             *)
(***************************************************************************)
EXTENDS Integers, Sequences, FiniteSets, TLC

(***************************************************************************)
(* Python values.                                                          *)
(***************************************************************************)
PyNone == [t |-> "none"]
PyStr(s) == [t |-> "str", s |-> s]
PyInt(n) == [t |-> "int", n |-> n]
PyBool(b) == [t |-> "bool", b |-> b]
PyList(l) == [t |-> "list", items |-> l]
\* a dict keeps its insertion order: a sequence of [k |-> key, v |-> value]
PyDict(m) == [t |-> "dict", members |-> m]

(***************************************************************************)
(* str methods used by validate_and_save_notes.                            *)
(***************************************************************************)
\* the whitespace of the modelled alphabet (str.strip() and JSON agree on it)
Whitespace == {" ", "\n", "\t"}

Min(S) == CHOOSE x \in S : \A y \in S : x <= y
Max(S) == CHOOSE x \in S : \A y \in S : x >= y

\* s[a:b] for 0 <= a, 0 <= b
Slice(s, a, b) == SubSeq(s, a + 1, IF b > Len(s) THEN Len(s) ELSE b)

\* s[a:]
SliceFrom(s, a) == SubSeq(s, a + 1, Len(s))

RECURSIVE FirstKept(_, _), LastKept(_, _)

\* the first position at or after i, the last at or before i, that holds
\* no whitespace
FirstKept(s, i) ==
    IF i <= Len(s) /\ s[i] \in Whitespace THEN FirstKept(s, i + 1) ELSE i
LastKept(s, i) ==
    IF i >= 1 /\ s[i] \in Whitespace THEN LastKept(s, i - 1) ELSE i

\* s.strip()
Strip(s) == SubSeq(s, FirstKept(s, 1), LastKept(s, Len(s)))

\* the 0-based indices at which sub occurs in s
Occurrences(s, sub) ==
    {i \in 0..(Len(s) - Len(sub)) : SubSeq(s, i + 1, i + Len(sub)) = sub}

\* s.startswith(prefix)
StartsWith(s, prefix) ==
    Len(s) >= Len(prefix) /\ SubSeq(s, 1, Len(prefix)) = prefix

\* s.find(sub): the lowest index, -1 when sub does not occur
Find(s, sub) ==
    IF Occurrences(s, sub) = {} THEN -1 ELSE Min(Occurrences(s, sub))

\* s.rfind(sub): the highest index, -1 when sub does not occur
RFind(s, sub) ==
    IF Occurrences(s, sub) = {} THEN -1 ELSE Max(Occurrences(s, sub))

\* the grave accent (U+0060), which a TLA+ string cannot hold
BT == "GRAVE"
Fence == <<BT, BT, BT>>
FenceJson == <<BT, BT, BT, "j", "s", "o", "n">>
Brace == <<"{">>

(***************************************************************************)
(* The cleaning steps of validate_and_save_notes, lines 128-146.           *)
(***************************************************************************)
\* a variant that ends the block at the first fence after the opening one,
\* cleaned_json.find(fence, start_idx), instead of the last
StripFenceFirstClosing(cleaned_json) ==
    LET start_idx == IF StartsWith(cleaned_json, FenceJson) THEN 7 ELSE 3
        after     == {i \in Occurrences(cleaned_json, Fence) : i >= start_idx}
        end_idx   == IF after = {} THEN -1 ELSE Min(after)
    IN  IF StartsWith(cleaned_json, Fence) /\ end_idx > start_idx
        THEN Strip(Slice(cleaned_json, start_idx, end_idx))
        ELSE cleaned_json

\* lines 131-142: the text between the opening fence and the last fence
StripFence(cleaned_json) ==
    IF StartsWith(cleaned_json, FenceJson)
    THEN LET start_idx == Find(cleaned_json, FenceJson) + 7
             end_idx   == RFind(cleaned_json, Fence)
         IN  IF end_idx > start_idx
             THEN Strip(Slice(cleaned_json, start_idx, end_idx))
             ELSE cleaned_json
    ELSE IF StartsWith(cleaned_json, Fence)
    THEN LET start_idx == Find(cleaned_json, Fence) + 3
             end_idx   == RFind(cleaned_json, Fence)
         IN  IF end_idx > start_idx
             THEN Strip(Slice(cleaned_json, start_idx, end_idx))
             ELSE cleaned_json
    ELSE cleaned_json

\* a variant that also drops the first "{"
DropLeadingTextPastBrace(cleaned_json) ==
    IF Find(cleaned_json, Brace) >= 0
    THEN SliceFrom(cleaned_json, Find(cleaned_json, Brace) + 1)
    ELSE cleaned_json

\* a variant that tests find("{") != 0: without a "{" it keeps
\* cleaned_json[-1:], the last character
DropLeadingTextNonZero(cleaned_json) ==
    IF Find(cleaned_json, Brace) > 0
    THEN SliceFrom(cleaned_json, Find(cleaned_json, Brace))
    ELSE IF Find(cleaned_json, Brace) = -1 /\ cleaned_json /= <<>>
    THEN <<cleaned_json[Len(cleaned_json)]>>
    ELSE cleaned_json

\* lines 145-146: drop what precedes the first "{"
DropLeadingText(cleaned_json) ==
    IF Find(cleaned_json, Brace) > 0
    THEN SliceFrom(cleaned_json, Find(cleaned_json, Brace))
    ELSE cleaned_json

\* lines 128-146 on a str
Sanitize(s) == DropLeadingText(StripFence(Strip(s)))

(***************************************************************************)
(* json.loads (line 149) on the modelled alphabet: objects, arrays,        *)
(* strings without escapes, integers and the literals null, true, false.   *)
(* Positions are 1-based indices into the text.                            *)
(***************************************************************************)
RECURSIVE SkipWs(_, _), ScanDigits(_, _), DigitsValue(_, _, _)
RECURSIVE ParseValue(_, _), ParseElements(_, _, _), ParseMembers(_, _, _)

Digits == <<"0", "1", "2", "3", "4", "5", "6", "7", "8", "9">>
DigitChars == {Digits[i] : i \in 1..10}
DigitOf(c) == (CHOOSE i \in 1..10 : Digits[i] = c) - 1

ParseFail == [ok |-> FALSE]
Parsed(v, next) == [ok |-> TRUE, v |-> v, next |-> next]

CharAt(s, i) == IF i >= 1 /\ i <= Len(s) THEN s[i] ELSE "EOF"

\* the first position at or after i that holds no whitespace
SkipWs(s, i) ==
    IF CharAt(s, i) \in Whitespace THEN SkipWs(s, i + 1) ELSE i

\* the position of the quote closing a string whose content starts at i;
\* 0 when the text ends first or a raw control character is met
ScanString(s, i) ==
    LET Ends(j) == j > Len(s) \/ s[j] \in {"\"", "\n", "\t"}
        stop    == CHOOSE j \in i..(Len(s) + 1) :
                       Ends(j) /\ \A k \in i..(j - 1) : ~Ends(k)
    IN  IF CharAt(s, stop) = "\"" THEN stop ELSE 0

\* the first position at or after i that holds no digit
ScanDigits(s, i) ==
    IF CharAt(s, i) \in DigitChars THEN ScanDigits(s, i + 1) ELSE i

\* the number written by the digits s[i..j]
DigitsValue(s, i, j) ==
    IF j < i THEN 0 ELSE DigitsValue(s, i, j - 1) * 10 + DigitOf(s[j])

\* -?(0|[1-9][0-9]*) at i
ParseNumber(s, i) ==
    LET neg   == CharAt(s, i) = "-"
        first == IF neg THEN i + 1 ELSE i
        stop  == IF CharAt(s, first) = "0" THEN first + 1 ELSE ScanDigits(s, first)
        n     == DigitsValue(s, first, stop - 1)
    IN  IF stop = first THEN ParseFail
        ELSE Parsed(PyInt(IF neg THEN 0 - n ELSE n), stop)

\* s.startswith(word, i - 1)
IsAt(s, i, word) ==
    i + Len(word) - 1 <= Len(s) /\ SubSeq(s, i, i + Len(word) - 1) = word

\* dict[key] = value: a repeated key keeps its place and takes the new value
DictSet(m, key, value) ==
    IF \E i \in 1..Len(m) : m[i].k = key
    THEN [i \in 1..Len(m) |-> IF m[i].k = key THEN [k |-> key, v |-> value] ELSE m[i]]
    ELSE Append(m, [k |-> key, v |-> value])

\* the JSON value starting at i (no whitespace at i)
ParseValue(s, i) ==
    LET c == CharAt(s, i)
    IN  IF c = "\""
        THEN LET e == ScanString(s, i + 1)
             IN  IF e = 0 THEN ParseFail
                 ELSE Parsed(PyStr(SubSeq(s, i + 1, e - 1)), e + 1)
        ELSE IF c = "{"
        THEN LET j == SkipWs(s, i + 1)
             IN  IF CharAt(s, j) = "}" THEN Parsed(PyDict(<<>>), j + 1)
                 ELSE ParseMembers(s, j, <<>>)
        ELSE IF c = "["
        THEN LET j == SkipWs(s, i + 1)
             IN  IF CharAt(s, j) = "]" THEN Parsed(PyList(<<>>), j + 1)
                 ELSE ParseElements(s, j, <<>>)
        ELSE IF c = "-" \/ c \in DigitChars THEN ParseNumber(s, i)
        ELSE IF IsAt(s, i, <<"n", "u", "l", "l">>) THEN Parsed(PyNone, i + 4)
        ELSE IF IsAt(s, i, <<"t", "r", "u", "e">>) THEN Parsed(PyBool(TRUE), i + 4)
        ELSE IF IsAt(s, i, <<"f", "a", "l", "s", "e">>) THEN Parsed(PyBool(FALSE), i + 5)
        ELSE ParseFail

\* the elements of an array from i on, after the elements acc
ParseElements(s, i, acc) ==
    LET e == ParseValue(s, i)
    IN  IF ~e.ok THEN ParseFail
        ELSE LET j == SkipWs(s, e.next)
             IN  IF CharAt(s, j) = "]" THEN Parsed(PyList(Append(acc, e.v)), j + 1)
                 ELSE IF CharAt(s, j) = ","
                 THEN ParseElements(s, SkipWs(s, j + 1), Append(acc, e.v))
                 ELSE ParseFail

\* the members of an object from i on, after the members acc
ParseMembers(s, i, acc) ==
    IF CharAt(s, i) /= "\"" THEN ParseFail
    ELSE LET e == ScanString(s, i + 1)
         IN  IF e = 0 THEN ParseFail
             ELSE LET j == SkipWs(s, e + 1)
                  IN  IF CharAt(s, j) /= ":" THEN ParseFail
                      ELSE LET val == ParseValue(s, SkipWs(s, j + 1))
                           IN  IF ~val.ok THEN ParseFail
                               ELSE LET m   == SkipWs(s, val.next)
                                        now == DictSet(acc, SubSeq(s, i + 1, e - 1), val.v)
                                    IN  IF CharAt(s, m) = "}"
                                        THEN Parsed(PyDict(now), m + 1)
                                        ELSE IF CharAt(s, m) = ","
                                        THEN ParseMembers(s, SkipWs(s, m + 1), now)
                                        ELSE ParseFail

\* json.loads(s): [ok |-> TRUE, v |-> the value], or [ok |-> FALSE] where
\* the code raises JSONDecodeError
JsonLoads(s) ==
    LET r == ParseValue(s, SkipWs(s, 1))
    IN  IF r.ok /\ SkipWs(s, r.next) = Len(s) + 1
        THEN [ok |-> TRUE, v |-> r.v]
        ELSE [ok |-> FALSE]

(***************************************************************************)
(* json.dump(data, f, indent=2, ensure_ascii=False) (line 158): the text   *)
(* written for a value that json.loads returned.                           *)
(***************************************************************************)
RECURSIVE IntToStr(_), Spaces(_), Encode(_, _), EncodeElements(_, _, _), EncodeMembers(_, _, _)

IntToStr(n) ==
    IF n < 0 THEN <<"-">> \o IntToStr(0 - n)
    ELSE IF n < 10 THEN <<Digits[n + 1]>>
    ELSE IntToStr(n \div 10) \o <<Digits[(n % 10) + 1]>>

Spaces(n) == IF n = 0 THEN <<>> ELSE <<" ">> \o Spaces(n - 1)

\* a line break and the indentation of nesting depth level
NewLine(level) == <<"\n">> \o Spaces(2 * level)

Quoted(s) == <<"\"">> \o s \o <<"\"">>

Encode(v, level) ==
    CASE v.t = "none" -> <<"n", "u", "l", "l">>
      [] v.t = "bool" -> IF v.b THEN <<"t", "r", "u", "e">>
                                ELSE <<"f", "a", "l", "s", "e">>
      [] v.t = "int"  -> IntToStr(v.n)
      [] v.t = "str"  -> Quoted(v.s)
      [] v.t = "list" -> IF v.items = <<>> THEN <<"[", "]">>
                         ELSE <<"[">> \o EncodeElements(v.items, 1, level + 1)
                                      \o NewLine(level) \o <<"]">>
      [] v.t = "dict" -> IF v.members = <<>> THEN <<"{", "}">>
                         ELSE <<"{">> \o EncodeMembers(v.members, 1, level + 1)
                                      \o NewLine(level) \o <<"}">>

EncodeElements(l, i, level) ==
    IF i > Len(l) THEN <<>>
    ELSE NewLine(level) \o Encode(l[i], level)
         \o (IF i < Len(l) THEN <<",">> ELSE <<>>)
         \o EncodeElements(l, i + 1, level)

EncodeMembers(m, i, level) ==
    IF i > Len(m) THEN <<>>
    ELSE NewLine(level) \o Quoted(m[i].k) \o <<":", " ">> \o Encode(m[i].v, level)
         \o (IF i < Len(m) THEN <<",">> ELSE <<>>)
         \o EncodeMembers(m, i + 1, level)

JsonDump(data) == Encode(data, 0)

(***************************************************************************)
(* The schema, lines 20-29: pydantic's validation of the keyword arguments *)
(* of Note and NotesResponse (pydantic 2, lax mode, extra keys ignored).   *)
(* kwargs are the members of a dict.  A constructor yields                 *)
(* [ok |-> TRUE, v |-> the instance] or, where pydantic raises             *)
(* ValidationError, [ok |-> FALSE, errors |-> every violation found].      *)
(***************************************************************************)
Note_id_ge == 1
Note_id_le == 10
Note_heading_max_length == 100
Note_summary_max_length == 150
NotesResponse_notes_min_length == 10
NotesResponse_notes_max_length == 10

KeyId == <<"i", "d">>
KeyHeading == <<"h", "e", "a", "d", "i", "n", "g">>
KeySummary == <<"s", "u", "m", "m", "a", "r", "y">>
KeyPageRef == <<"p", "a", "g", "e", "_", "r", "e", "f">>
KeyNotes == <<"n", "o", "t", "e", "s">>

Missing == [t |-> "missing"]

HasKey(m, key) == \E i \in 1..Len(m) : m[i].k = key

\* kwargs.get(key), Missing when the key is absent
DictGet(m, key) ==
    IF HasKey(m, key) THEN m[CHOOSE i \in 1..Len(m) : m[i].k = key].v ELSE Missing

\* whether s reads as -?[0-9]+
IsIntLiteral(s) ==
    LET first == IF CharAt(s, 1) = "-" THEN 2 ELSE 1
    IN  first <= Len(s) /\ \A i \in first..Len(s) : s[i] \in DigitChars

\* an int field in lax mode: an int, a bool, or a str that reads as an int
AsInt(v) ==
    CASE v.t = "int"  -> [ok |-> TRUE, n |-> v.n]
      [] v.t = "bool" -> [ok |-> TRUE, n |-> IF v.b THEN 1 ELSE 0]
      [] v.t = "str" /\ IsIntLiteral(v.s) ->
             LET neg == v.s[1] = "-"
                 n   == DigitsValue(v.s, IF neg THEN 2 ELSE 1, Len(v.s))
             IN  [ok |-> TRUE, n |-> IF neg THEN 0 - n ELSE n]
      [] OTHER -> [ok |-> FALSE]

Violation(field, type) == [field |-> field, type |-> type]

\* a variant with lt=10 in place of le=10
IdErrorsExclusive(v) ==
    IF v = Missing THEN {Violation("id", "missing")}
    ELSE IF ~AsInt(v).ok THEN {Violation("id", "int_type")}
    ELSE IF AsInt(v).n < Note_id_ge THEN {Violation("id", "greater_than_equal")}
    ELSE IF AsInt(v).n >= Note_id_le THEN {Violation("id", "less_than")}
    ELSE {}

\* line 22: id: int = Field(..., ge=1, le=10)
IdErrors(v) ==
    IF v = Missing THEN {Violation("id", "missing")}
    ELSE IF ~AsInt(v).ok THEN {Violation("id", "int_type")}
    ELSE IF AsInt(v).n < Note_id_ge THEN {Violation("id", "greater_than_equal")}
    ELSE IF AsInt(v).n > Note_id_le THEN {Violation("id", "less_than_equal")}
    ELSE {}

\* a variant that refuses a str of max_length characters
StrErrorsExclusive(field, v, max_length) ==
    IF v = Missing THEN {Violation(field, "missing")}
    ELSE IF v.t /= "str" THEN {Violation(field, "string_type")}
    ELSE IF Len(v.s) >= max_length THEN {Violation(field, "string_too_long")}
    ELSE {}

\* lines 23-24: a required str of at most max_length characters
StrErrors(field, v, max_length) ==
    IF v = Missing THEN {Violation(field, "missing")}
    ELSE IF v.t /= "str" THEN {Violation(field, "string_type")}
    ELSE IF Len(v.s) > max_length THEN {Violation(field, "string_too_long")}
    ELSE {}

\* line 25: page_ref: Optional[int] = Field(None)
PageRefErrors(v) ==
    IF v = Missing \/ v.t = "none" \/ AsInt(v).ok THEN {}
    ELSE {Violation("page_ref", "int_type")}

NoteErrors(kwargs) ==
    IdErrors(DictGet(kwargs, KeyId))
    \cup StrErrors("heading", DictGet(kwargs, KeyHeading), Note_heading_max_length)
    \cup StrErrors("summary", DictGet(kwargs, KeySummary), Note_summary_max_length)
    \cup PageRefErrors(DictGet(kwargs, KeyPageRef))

\* the instance Note(**kwargs) of valid kwargs
NoteInstance(kwargs) ==
    LET ref == DictGet(kwargs, KeyPageRef)
    IN  [id       |-> AsInt(DictGet(kwargs, KeyId)).n,
         heading  |-> DictGet(kwargs, KeyHeading).s,
         summary  |-> DictGet(kwargs, KeySummary).s,
         page_ref |-> IF ref = Missing \/ ref.t = "none" THEN PyNone
                      ELSE PyInt(AsInt(ref).n)]

\* lines 20-25: Note(**kwargs)
Note(kwargs) ==
    IF NoteErrors(kwargs) = {}
    THEN [ok |-> TRUE, v |-> NoteInstance(kwargs)]
    ELSE [ok |-> FALSE, errors |-> NoteErrors(kwargs)]

ItemViolation(index, e) == [index |-> index, field |-> e.field, type |-> e.type]

\* the violations of item index of notes: it must be a dict that Note accepts
ItemErrors(item, index) ==
    IF item.t /= "dict" THEN {ItemViolation(index, Violation("", "model_type"))}
    ELSE {ItemViolation(index, e) : e \in NoteErrors(item.members)}

\* a variant without max_length
NotesErrorsNoMax(v) ==
    IF v = Missing THEN {ItemViolation(0, Violation("notes", "missing"))}
    ELSE IF v.t /= "list" THEN {ItemViolation(0, Violation("notes", "list_type"))}
    ELSE (IF Len(v.items) < NotesResponse_notes_min_length
          THEN {ItemViolation(0, Violation("notes", "too_short"))} ELSE {})
         \cup UNION {ItemErrors(v.items[i], i) : i \in 1..Len(v.items)}

\* line 29: notes: List[Note] = Field(..., min_length=10, max_length=10)
NotesErrors(v) ==
    IF v = Missing THEN {ItemViolation(0, Violation("notes", "missing"))}
    ELSE IF v.t /= "list" THEN {ItemViolation(0, Violation("notes", "list_type"))}
    ELSE (IF Len(v.items) < NotesResponse_notes_min_length
          THEN {ItemViolation(0, Violation("notes", "too_short"))} ELSE {})
         \cup (IF Len(v.items) > NotesResponse_notes_max_length
               THEN {ItemViolation(0, Violation("notes", "too_long"))} ELSE {})
         \cup UNION {ItemErrors(v.items[i], i) : i \in 1..Len(v.items)}

\* lines 27-29: NotesResponse(**kwargs)
NotesResponse(kwargs) ==
    LET notes == DictGet(kwargs, KeyNotes)
    IN  IF NotesErrors(notes) = {}
        THEN [ok |-> TRUE,
              v  |-> [notes |-> [i \in 1..Len(notes.items) |->
                                    NoteInstance(notes.items[i].members)]]]
        ELSE [ok |-> FALSE, errors |-> NotesErrors(notes)]

(***************************************************************************)
(* validate_and_save_notes, lines 124-182, in parts.                       *)
(***************************************************************************)
Unset == [t |-> "unset"]
Absent == [t |-> "absent"]
FileOf(text) == [t |-> "file", text |-> text]

\* line 172: the list of Note instances handed back
Notes(instances) == [t |-> "notes", notes |-> instances]

\* the exception that ends the try block (lines 126-158), "none" when it
\* runs to its return: is_str, parsed, is_dict, valid tell how far lines
\* 128, 149 and 152 got, disk what the file system does at lines 157-158
TryException(is_str, parsed, is_dict, valid, disk) ==
    IF ~is_str THEN "AttributeError"
    ELSE IF ~parsed THEN "JSONDecodeError"
    ELSE IF ~is_dict THEN "TypeError"
    ELSE IF ~valid THEN "ValidationError"
    ELSE IF disk /= "ok" THEN "OSError"
    ELSE "none"

\* a variant that saves before it validates
ReachesSaveUnvalidated(is_str, parsed, is_dict, valid) ==
    is_str /\ parsed /\ is_dict

\* whether control reaches open(output_file, 'w') on line 157
ReachesSave(is_str, parsed, is_dict, valid) ==
    is_str /\ parsed /\ is_dict /\ valid

\* a variant that dumps data["notes"] in place of data
SavedNotesOnly(file, data, disk) ==
    CASE disk = "ok"          -> FileOf(JsonDump(DictGet(data.members, KeyNotes)))
      [] disk = "open_fails"  -> file
      [] disk = "write_fails" -> FileOf(<<>>)

\* lines 157-158: the file after open(output_file, 'w') and json.dump(data).
\* With disk "open_fails" open() raises OSError and the file is as it was;
\* with "write_fails" open() has emptied the file and the dump raises
\* OSError before any of the text is on disk.
Saved(file, data, disk) ==
    CASE disk = "ok"          -> FileOf(JsonDump(data))
      [] disk = "open_fails"  -> file
      [] disk = "write_fails" -> FileOf(<<>>)

\* a variant whose second except clause raises the exception again
HandledReraising(e, notes_json_str) ==
    IF e = "JSONDecodeError"
    THEN [stdout |-> <<"Invalid JSON", "Raw response", "Cleaned response">>,
          result |-> PyNone, raised |-> "none"]
    ELSE [stdout |-> <<"Validation error">>, result |-> Unset, raised |-> e]

\* lines 174-182: what the except clauses print and hand to the caller
\* when the try block raised e
Handled(e, notes_json_str) ==
    IF e = "JSONDecodeError"
    THEN [stdout |-> <<"Invalid JSON", "Raw response", "Cleaned response">>,
          result |-> PyNone, raised |-> "none"]
    ELSE IF notes_json_str.t = "str"
    THEN [stdout |-> <<"Validation error", "Raw response">>,
          result |-> PyNone, raised |-> "none"]
    ELSE \* line 181: notes_json_str[:500] of a value that is no str
         [stdout |-> <<"Validation error">>,
          result |-> Unset, raised |-> "TypeError"]

\* lines 154-172: what a run to the return prints and hands back
Completed(response) ==
    [stdout |-> <<>>, result |-> Notes(response.notes), raised |-> "none"]

\* lines 154, 160, 163: what the try block printed before it ended with e
PrintedInTry(e) ==
    IF e = "none"
    THEN <<"Successfully validated", "Notes saved", "Generated Exam Notes">>
    ELSE IF e = "OSError" THEN <<"Successfully validated">>
    ELSE <<>>

(***************************************************************************)
(* The inputs: keyword arguments for the constructors and response texts   *)
(* for validate_and_save_notes.                                            *)
(***************************************************************************)
\* ids from -MaxProbeId to MaxProbeId are tried
MaxProbeId == 12
\* lengths within Slack of a field's max_length are tried
Slack == 1
\* lists of 0 to MaxNotes notes are tried
MaxNotes == 11
\* up to MaxPad whitespace characters pad a response on each side
MaxPad == 1
\* the id of tests/test_notes_schema.py:103 and the length of :52
OutOfRangeId == 15
LongSummary == 200

StrOf(c, n) == [i \in 1..n |-> c]
Member(key, value) == [k |-> key, v |-> value]

\* the kwargs of a note; a Missing value leaves its key out
NoteKwargs(id, heading, summary, page_ref) ==
    (IF id = Missing THEN <<>> ELSE <<Member(KeyId, id)>>)
    \o (IF heading = Missing THEN <<>> ELSE <<Member(KeyHeading, heading)>>)
    \o (IF summary = Missing THEN <<>> ELSE <<Member(KeySummary, summary)>>)
    \o (IF page_ref = Missing THEN <<>> ELSE <<Member(KeyPageRef, page_ref)>>)

ProbeIds ==
    {PyInt(n) : n \in ((0 - MaxProbeId)..MaxProbeId) \cup {OutOfRangeId}}
    \cup {PyStr(<<"5">>), PyStr(<<"x">>), PyBool(TRUE), PyNone, Missing}

ProbeLengths(max_length) ==
    {0, 1} \cup ((max_length - Slack)..(max_length + Slack))

ProbeHeadings ==
    {PyStr(StrOf("h", n)) : n \in ProbeLengths(Note_heading_max_length)}
    \cup {Missing, PyInt(3)}

ProbeSummaries ==
    {PyStr(StrOf("x", n)) : n \in ProbeLengths(Note_summary_max_length) \cup {LongSummary}}
    \cup {Missing}

ProbePageRefs == {Missing, PyNone, PyInt(12), PyStr(<<"x">>)}

\* the kwargs tried on Note
NoteInputs ==
    {NoteKwargs(id, heading, summary, page_ref) :
        id \in ProbeIds, heading \in ProbeHeadings,
        summary \in ProbeSummaries, page_ref \in ProbePageRefs}

\* the i-th note of a well-formed response: ids run 1..10 and start over
GoodNote(i) ==
    PyDict(NoteKwargs(PyInt(((i - 1) % Note_id_le) + 1),
                      PyStr(<<"T">> \o IntToStr(i)), PyStr(<<"S">>),
                      IF i % 2 = 0 THEN PyInt(5 * i) ELSE Missing))

GoodNotes(n) == [i \in 1..n |-> GoodNote(i)]

\* note i with one field replaced
WithId(i, id) ==
    PyDict(NoteKwargs(id, PyStr(<<"T">> \o IntToStr(i)), PyStr(<<"S">>), Missing))
WithHeading(i, heading) ==
    PyDict(NoteKwargs(PyInt(i), heading, PyStr(<<"S">>), Missing))
WithSummary(i, summary) ==
    PyDict(NoteKwargs(PyInt(i), PyStr(<<"T">> \o IntToStr(i)), summary, Missing))
WithPageRef(i, page_ref) ==
    PyDict(NoteKwargs(PyInt(i), PyStr(<<"T">> \o IntToStr(i)), PyStr(<<"S">>), page_ref))

\* the items that take the place of note i in a list of good notes
Replacements(i) ==
    {WithId(i, PyInt(OutOfRangeId)), WithId(i, PyInt(0)),
     WithId(i, PyInt((i % Note_id_le) + 1)), WithId(i, PyStr(<<"5">>)),
     WithHeading(i, Missing),
     WithHeading(i, PyStr(StrOf("h", Note_heading_max_length + 1))),
     WithSummary(i, PyStr(StrOf("x", Note_summary_max_length))),
     WithSummary(i, PyStr(StrOf("x", Note_summary_max_length + 1))),
     WithPageRef(i, PyNone), PyInt(i)}

\* the lists tried as notes: good notes, at most one of them replaced
NoteLists ==
    {GoodNotes(n) : n \in 0..MaxNotes}
    \cup UNION {{[GoodNotes(n) EXCEPT ![i] = r] : r \in Replacements(i)} :
                   n \in {NotesResponse_notes_min_length - 1,
                          NotesResponse_notes_min_length},
                   i \in {1, 2, NotesResponse_notes_min_length - 1}}

\* the kwargs tried on NotesResponse
NotesResponseInputs ==
    {<<Member(KeyNotes, PyList(l))>> : l \in NoteLists}
    \cup {<<>>, <<Member(<<"w", "r", "o", "n", "g", "_", "k", "e", "y">>, PyList(GoodNotes(1)))>>,
          <<Member(KeyNotes, PyStr(<<"x">>))>>,
          <<Member(KeyNotes, PyList(GoodNotes(NotesResponse_notes_min_length))),
            Member(<<"s", "r", "c">>, PyStr(<<"p", "d", "f">>))>>}

\* the response data tried: what a provider may send as the notes document
ResponseData ==
    {PyDict(<<Member(KeyNotes, PyList(l))>>) :
        l \in {GoodNotes(n) : n \in (NotesResponse_notes_min_length - 1)..MaxNotes}
              \cup {[GoodNotes(NotesResponse_notes_min_length) EXCEPT ![2] = r] :
                       r \in Replacements(2)}}
    \cup {PyDict(<<Member(KeyNotes, PyList(GoodNotes(NotesResponse_notes_min_length))),
                   Member(<<"s", "r", "c">>, PyStr(<<"p", "d", "f">>))>>),
          PyDict(<<Member(<<"w", "r", "o", "n", "g", "_", "k", "e", "y">>,
                          PyList(GoodNotes(1)))>>)}

\* short texts that are no notes document
ShortTexts ==
    {<<>>,
     <<"n", "o", "t", " ", "j", "s", "o", "n", " ", "a", "t", " ", "a", "l", "l">>,
     <<"a", "b", "c">>, <<"[", "1", "]">>, <<"1", "2">>, <<"n", "u", "l", "l">>,
     <<"\"", "a", "\"">>, <<"{", "}">>, <<"[", "{", "}", "]">>,
     <<"\"", "a", "{", "b", "\"">>, <<"{">>, <<"{", "}", "x">>, Fence}

\* what a provider puts around a text: nothing, whitespace, a fenced block
\* with or without the json tag, a sentence before it
Wrappings(text) ==
    {text,
     FenceJson \o <<"\n">> \o text \o <<"\n">> \o Fence,
     Fence \o <<"\n">> \o text \o <<"\n">> \o Fence,
     <<"H", "e", "r", "e", " ", "y", "o", "u", " ", "g", "o", ":", "\n">> \o text}
    \cup {StrOf(" ", n) \o text \o StrOf("\n", n) : n \in 1..MaxPad}

\* a ten-note document whose third heading quotes a fence
FenceInHeading ==
    PyDict(<<Member(KeyNotes,
                    PyList([GoodNotes(NotesResponse_notes_min_length) EXCEPT ![3] =
                               WithHeading(3, PyStr(<<"a">> \o Fence \o <<"b">>))]))>>)

\* the texts tried inside the fences below
FencedTexts ==
    {JsonDump(PyDict(<<Member(KeyNotes, PyList(GoodNotes(n)))>>)) :
        n \in {NotesResponse_notes_min_length - 1, NotesResponse_notes_min_length}}
    \cup {JsonDump(FenceInHeading), <<>>, <<"a", "b", "c">>, <<"[", "1", "]">>,
          <<"{", "}">>}

\* fenced blocks as a provider may send them: another language tag, no
\* closing fence, a sentence after the block, two blocks, nothing between
\* the fence and the text
FencedWrappings(text) ==
    {Fence \o <<"p", "y", "\n">> \o text \o <<"\n">> \o Fence,
     FenceJson \o <<"\n">> \o text,
     Fence \o <<"\n">> \o text,
     FenceJson \o <<"\n">> \o text \o <<"\n">> \o Fence \o <<"\n", "D", "o", "n", "e", ".">>,
     FenceJson \o <<"\n">> \o text \o <<"\n">> \o Fence \o <<"\n">>
         \o FenceJson \o <<"\n">> \o text \o <<"\n">> \o Fence,
     FenceJson \o text \o Fence}

\* the arguments tried on validate_and_save_notes
Responses ==
    {PyStr(w) : w \in UNION {Wrappings(text) :
                    text \in ShortTexts \cup {JsonDump(d) : d \in ResponseData}}}
    \cup {PyStr(w) : w \in Wrappings(JsonDump(FenceInHeading))
                          \cup UNION {FencedWrappings(text) : text \in FencedTexts}}
    \cup {PyNone, PyInt(7)}

\* what the file system does with the write of lines 157-158
DiskStates == {"ok", "open_fails", "write_fails"}

(***************************************************************************)
(* The state.  A caller hands validate_and_save_notes a response and the   *)
(* function runs to its return or to an uncaught exception; the schema's   *)
(* constructors are applied to keyword arguments on their own, as the      *)
(* tests do.                                                               *)
(***************************************************************************)
VARIABLES
    pc,              \* "idle", "called", "returned" or "raised"
    notes_json_str,  \* the argument of the call
    disk,            \* what the file system does with this call's write
    exam_notes,      \* the destination file (output_file)
    cleaned_json,    \* the local of that name, Unset until assigned
    exc,             \* the exception that ended the try block, or "none"
    result,          \* the value returned to the caller
    raised,          \* the exception that reached the caller, or "none"
    stdout,          \* what the call printed, by the lead of each message
    writes,          \* how often the call opened the file for writing
    cls,             \* the class under construction: "Note", "NotesResponse"
    kwargs,          \* its keyword arguments
    instance         \* what the constructor gave, Unset before it ran

\* generate_notes_with_assistant (lines 42-88)
VARIABLES
    gpc,             \* "start", "polling", "listing", "returned" or "raised"
    statuses,        \* the values run.status has had, the last is current
    retrieves,       \* how often runs.retrieve was called
    messages,        \* the list messages.data, Unset until the thread was listed
    notes_content,   \* what the function returned, Unset before
    gexc,            \* the exception that left the function, or "none"
    printed          \* what the function printed, by the lead of each message

pipeline == <<pc, notes_json_str, disk, exam_notes, cleaned_json, exc, result,
              raised, stdout, writes>>
schema == <<cls, kwargs, instance>>
assistant == <<gpc, statuses, retrieves, messages, notes_content, gexc, printed>>
vars == <<pipeline, schema, assistant>>

\* generate_notes_with_assistant has not been called
NoRun ==
    /\ gpc = "start"
    /\ statuses = <<>>
    /\ retrieves = 0
    /\ messages = Unset
    /\ notes_content = Unset
    /\ gexc = "none"
    /\ printed = <<>>

\* a destination file left by an earlier run
OldFile == FileOf(<<"o", "l", "d">>)

NoCall ==
    /\ notes_json_str = Unset
    /\ disk = "ok"
    /\ cleaned_json = Unset
    /\ exc = "none"
    /\ result = Unset
    /\ raised = "none"
    /\ stdout = <<>>
    /\ writes = 0

Init ==
    /\ pc = "idle"
    /\ NoCall
    /\ exam_notes \in {Absent, OldFile}
    /\ cls = "none"
    /\ kwargs = <<>>
    /\ instance = Unset
    /\ NoRun

\* lines 206, 212 and any other caller: validate_and_save_notes(arg) is
\* entered, with the file system in state d
Call(arg, d) ==
    /\ pc = "idle"
    /\ pc' = "called"
    /\ notes_json_str' = arg
    /\ disk' = d
    /\ UNCHANGED <<exam_notes, cleaned_json, exc, result, raised, stdout, writes,
                   schema, assistant>>

\* lines 124-182: what validate_and_save_notes(arg) leaves behind, run with
\* the destination file as it is in file and the file system in state d
Run(arg, file, d) ==
    LET is_str   == arg.t = "str"
        cleaned  == IF is_str THEN Sanitize(arg.s) ELSE <<>>
        data     == IF is_str THEN JsonLoads(cleaned) ELSE [ok |-> FALSE]
        is_dict  == data.ok /\ data.v.t = "dict"
        response == IF is_dict THEN NotesResponse(data.v.members)
                               ELSE [ok |-> FALSE]
        e        == TryException(is_str, data.ok, is_dict, response.ok, d)
        saves    == ReachesSave(is_str, data.ok, is_dict, response.ok)
        out      == IF e = "none" THEN Completed(response.v)
                                  ELSE Handled(e, arg)
    IN  [cleaned_json |-> IF is_str THEN PyStr(cleaned) ELSE Unset,
         exc          |-> e,
         exam_notes   |-> IF saves THEN Saved(file, data.v, d) ELSE file,
         opened       |-> IF saves THEN 1 ELSE 0,
         result       |-> out.result,
         raised       |-> out.raised,
         stdout       |-> PrintedInTry(e) \o out.stdout]

\* lines 124-182: validate_and_save_notes(notes_json_str)
ValidateAndSaveNotes ==
    /\ pc = "called"
    /\ \E run \in {Run(notes_json_str, exam_notes, disk)} :
           /\ cleaned_json' = run.cleaned_json
           /\ exc' = run.exc
           /\ exam_notes' = run.exam_notes
           /\ writes' = writes + run.opened
           /\ result' = run.result
           /\ raised' = run.raised
           /\ stdout' = run.stdout
           /\ pc' = IF run.raised = "none" THEN "returned" ELSE "raised"
    /\ UNCHANGED <<notes_json_str, disk, schema, assistant>>

\* lines 204-212: the caller drops what the call gave it and the script
\* ends; the destination file is all that is left for the next run
Exit ==
    /\ pc \in {"returned", "raised"}
    /\ pc' = "idle"
    /\ notes_json_str' = Unset
    /\ disk' = "ok"
    /\ cleaned_json' = Unset
    /\ exc' = "none"
    /\ result' = Unset
    /\ raised' = "none"
    /\ stdout' = <<>>
    /\ writes' = 0
    /\ UNCHANGED <<exam_notes, schema, assistant>>

Next ==
    \/ \E arg \in Responses, d \in DiskStates : Call(arg, d)
    \/ ValidateAndSaveNotes
    \/ Exit

Spec == Init /\ [][Next]_vars

(***************************************************************************)
(* The constructors on their own (tests/test_notes_schema.py).             *)
(***************************************************************************)
SchemaInit ==
    /\ pc = "idle"
    /\ NoCall
    /\ exam_notes = Absent
    /\ instance = Unset
    /\ NoRun
    /\ \/ cls = "Note" /\ kwargs \in NoteInputs
       \/ cls = "NotesResponse" /\ kwargs \in NotesResponseInputs

\* lines 20-25: Note(**kwargs)
ConstructNote ==
    /\ cls = "Note"
    /\ instance = Unset
    /\ instance' = Note(kwargs)
    /\ UNCHANGED <<cls, kwargs, pipeline, assistant>>

\* lines 27-29: NotesResponse(**kwargs)
ConstructNotesResponse ==
    /\ cls = "NotesResponse"
    /\ instance = Unset
    /\ instance' = NotesResponse(kwargs)
    /\ UNCHANGED <<cls, kwargs, pipeline, assistant>>

SchemaNext == ConstructNote \/ ConstructNotesResponse

SchemaSpec == SchemaInit /\ [][SchemaNext]_vars

(***************************************************************************)
(* generate_notes_with_assistant, lines 42-88.  The function blocks in the *)
(* provider's calls; between two calls it runs on its own.  What a call    *)
(* gives back is the provider's choice.                                    *)
(***************************************************************************)
\* runs.retrieve is called at most MaxRetrieves times
MaxRetrieves == 3

\* the values the provider gives run.status
RunStatuses ==
    {"queued", "in_progress", "requires_action", "cancelling", "cancelled",
     "failed", "completed", "incomplete", "expired"}

\* a variant that waits only while the run is queued
PollingQueuedOnly(status) == status = "queued"

\* line 72: run.status in ['queued', 'in_progress']
Polling(status) == status \in {"queued", "in_progress"}

\* a message of the thread and the blocks of its content
Message(role, content) == [role |-> role, content |-> content]
TextBlock(value) == [type |-> "text", value |-> value]
ImageBlock == [type |-> "image_file", value |-> <<"f">>]

UserMessage == Message("user", <<TextBlock(<<"P", "l", "e", "a", "s", "e">>)>>)
Answer(value) == Message("assistant", <<TextBlock(value)>>)

\* what messages.list may give as messages.data, newest first
ThreadLists ==
    {<<>>, <<UserMessage>>,
     <<Answer(<<"{", "}">>), UserMessage>>,
     <<UserMessage, Answer(<<"{", "}">>)>>,
     <<Answer(<<"n", "o">>), Answer(<<"{", "}">>), UserMessage>>,
     <<Answer(<<>>), UserMessage>>,
     <<Message("assistant", <<ImageBlock, TextBlock(<<"{", "}">>)>>), UserMessage>>,
     <<Message("assistant", <<>>), Answer(<<"{", "}">>), UserMessage>>}

\* lines 81-82: the index of the first message of the assistant, 0 if none
FirstAssistant(data) ==
    IF \A i \in 1..Len(data) : data[i].role /= "assistant" THEN 0
    ELSE CHOOSE i \in 1..Len(data) :
             /\ data[i].role = "assistant"
             /\ \A j \in 1..(i - 1) : data[j].role /= "assistant"

\* lines 87-88: the function gives up
GiveUp(out) ==
    /\ gpc' = "returned"
    /\ notes_content' = PyNone
    /\ gexc' = "none"
    /\ printed' = Append(out, "Run failed with status")

\* lines 72, 76: where the function goes with run.status = status, having
\* printed out
Proceed(status, out) ==
    IF Polling(status)
    THEN /\ gpc' = "polling"
         /\ printed' = out
         /\ UNCHANGED <<notes_content, gexc>>
    ELSE IF status = "completed"
    THEN /\ gpc' = "listing"
         /\ printed' = out
         /\ UNCHANGED <<notes_content, gexc>>
    ELSE GiveUp(out)

\* lines 44-69: the thread, the user's message and the run are created
CreateRun(status) ==
    /\ gpc = "start"
    /\ statuses' = <<status>>
    /\ Proceed(status, <<"Generating notes">>)
    /\ UNCHANGED <<retrieves, messages, pipeline, schema>>

\* lines 73-74: the run is read again
Retrieve(status) ==
    /\ gpc = "polling"
    /\ retrieves < MaxRetrieves
    /\ retrieves' = retrieves + 1
    /\ statuses' = Append(statuses, status)
    /\ Proceed(status, Append(printed, "Status"))
    /\ UNCHANGED <<messages, pipeline, schema>>

\* lines 78-88: the thread is listed and searched for the assistant's answer
ListMessages(data) ==
    /\ gpc = "listing"
    /\ messages' = PyList(data)
    /\ LET i == FirstAssistant(data)
       IN  IF i = 0 THEN GiveUp(printed)
           ELSE IF data[i].content = <<>>
           THEN /\ gpc' = "raised"
                /\ gexc' = "IndexError"
                /\ UNCHANGED <<notes_content, printed>>
           ELSE IF data[i].content[1].type /= "text"
           THEN /\ gpc' = "raised"
                /\ gexc' = "AttributeError"
                /\ UNCHANGED <<notes_content, printed>>
           ELSE /\ gpc' = "returned"
                /\ notes_content' = PyStr(data[i].content[1].value)
                /\ gexc' = "none"
                /\ printed' = Append(printed, "Notes generated successfully")
    /\ UNCHANGED <<statuses, retrieves, pipeline, schema>>

\* lines 47, 59, 65, 73, 78: a call of the provider raises
ApiFails ==
    /\ gpc \in {"start", "polling", "listing"}
    /\ gpc' = "raised"
    /\ gexc' = "APIError"
    /\ printed' = IF gpc = "start" THEN <<"Generating notes">> ELSE printed
    /\ UNCHANGED <<statuses, retrieves, messages, notes_content, pipeline, schema>>

AssistantInit ==
    /\ pc = "idle"
    /\ NoCall
    /\ exam_notes = Absent
    /\ cls = "none"
    /\ kwargs = <<>>
    /\ instance = Unset
    /\ NoRun

AssistantNext ==
    \/ \E status \in RunStatuses : CreateRun(status)
    \/ \E status \in RunStatuses : Retrieve(status)
    \/ \E data \in ThreadLists : ListMessages(data)
    \/ ApiFails

AssistantSpec == AssistantInit /\ [][AssistantNext]_vars

(***************************************************************************)
(* The claims.                                                             *)
(***************************************************************************)
\* the call is over: it returned or an exception left it
Over == pc \in {"returned", "raised"}

\* the failure kinds of the specification, by the exception of the try block
Kind(e) ==
    CASE e = "JSONDecodeError" -> "MalformedJSON"
      [] e \in {"ValidationError", "TypeError"} -> "SchemaViolation"
      [] e = "OSError" -> "IOFailure"
      [] e = "AttributeError" -> "NoText"
      [] OTHER -> "none"

FailureKinds == {"MalformedJSON", "SchemaViolation", "IOFailure"}

\* C1: a call whose sanitize, parse and validate succeed opens the
\* destination file for writing exactly once (and leaves a file when the
\* file system lets it); a call that fails to parse, fails validation or
\* is handed a value that is no text opens it never and leaves the file,
\* or its absence, as it was.
C1_OneWriteOrNone ==
    [][(pc = "called" /\ pc' /= "called") =>
          /\ exc' \in {"none", "OSError"} => writes' = 1
          /\ exc' = "none" => exam_notes'.t = "file"
          /\ exc' \in {"JSONDecodeError", "ValidationError", "TypeError",
                       "AttributeError"}
                => writes' = 0 /\ exam_notes' = exam_notes]_vars

\* a failed validation that left a file written by an earlier call in place
C1_Witness ==
    /\ pc = "returned"
    /\ exc = "ValidationError"
    /\ writes = 0
    /\ exam_notes \notin {Absent, OldFile, FileOf(<<>>)}

\* what the caller has in hand when the call is over
Outcome(run) == <<run.result, run.raised>>

\* two calls that fail for the first two kinds
ReferenceFailures ==
    {PyStr(<<"n", "o", "t", " ", "j", "s", "o", "n", " ", "a", "t", " ", "a", "l", "l">>),
     PyStr(<<"{", "}">>)}

C3_NoTextHandled ==
    (Over /\ notes_json_str \in {PyNone, PyStr(<<>>)}) =>
        /\ pc = "returned"
        /\ result = PyNone
        /\ raised = "none"
        /\ writes = 0

\* the ids of a list of Note instances are pairwise distinct
DistinctIds(notes) ==
    \A i, j \in 1..Len(notes) : notes[i].id = notes[j].id => i = j

\* C4: a response is validated and saved only if its notes carry pairwise
\* distinct ids.
C4_DistinctIds ==
    (pc = "returned" /\ exc = "none") => DistinctIds(result.notes)

\* item is a dict that Note accepts
ValidItem(item) == item.t = "dict" /\ Note(item.members).ok

\* C5: a list of notes that are each valid is accepted by NotesResponse
\* exactly when it has 10 entries.
C5_ExactlyTen ==
    (/\ cls = "NotesResponse"
     /\ instance /= Unset
     /\ HasKey(kwargs, KeyNotes)
     /\ DictGet(kwargs, KeyNotes).t = "list"
     /\ \A i \in 1..Len(DictGet(kwargs, KeyNotes).items) :
            ValidItem(DictGet(kwargs, KeyNotes).items[i]))
        => (instance.ok <=> Len(DictGet(kwargs, KeyNotes).items) = 10)

\* eleven valid notes, refused
C5_Witness ==
    /\ cls = "NotesResponse"
    /\ instance /= Unset
    /\ ~instance.ok
    /\ DictGet(kwargs, KeyNotes).t = "list"
    /\ Len(DictGet(kwargs, KeyNotes).items) = 11
    /\ \A i \in 1..11 : ValidItem(DictGet(kwargs, KeyNotes).items[i])

\* v is a str of at most n characters
StrWithin(v, n) == v.t = "str" /\ Len(v.s) <= n

\* kwargs whose heading, summary and page_ref are in bounds
OtherFieldsInBounds(kw) ==
    /\ StrWithin(DictGet(kw, KeyHeading), 100)
    /\ StrWithin(DictGet(kw, KeySummary), 150)
    /\ DictGet(kw, KeyPageRef).t \in {"missing", "none", "int"}

\* C6: with heading and summary in bounds, Note accepts an integer id
\* exactly when 1 <= id <= 10; a list of notes one of which carries an
\* integer id outside 1..10 is refused as a whole.
C6_IdRange ==
    /\ (/\ cls = "Note"
        /\ instance /= Unset
        /\ DictGet(kwargs, KeyId).t = "int"
        /\ OtherFieldsInBounds(kwargs))
           => (instance.ok <=> (1 <= DictGet(kwargs, KeyId).n
                                /\ DictGet(kwargs, KeyId).n <= 10))
    /\ (/\ cls = "NotesResponse"
        /\ instance /= Unset
        /\ DictGet(kwargs, KeyNotes).t = "list"
        /\ \E i \in 1..Len(DictGet(kwargs, KeyNotes).items) :
              LET item == DictGet(kwargs, KeyNotes).items[i]
              IN  /\ item.t = "dict"
                  /\ DictGet(item.members, KeyId).t = "int"
                  /\ DictGet(item.members, KeyId).n \notin 1..10)
           => ~instance.ok

\* ten notes of which one has the id 15 and every other field in bounds
C6_Witness ==
    /\ cls = "NotesResponse"
    /\ instance /= Unset
    /\ ~instance.ok
    /\ DictGet(kwargs, KeyNotes).t = "list"
    /\ Len(DictGet(kwargs, KeyNotes).items) = 10
    /\ \E i \in 1..10 :
          LET item == DictGet(kwargs, KeyNotes).items[i]
          IN  /\ item.t = "dict"
              /\ DictGet(item.members, KeyId) = PyInt(15)
              /\ OtherFieldsInBounds(item.members)

\* C7: with a valid id and heading, Note accepts a summary s exactly when
\* len(s) <= 150, and the accepted note holds s itself.
C7_SummaryLength ==
    (/\ cls = "Note"
     /\ instance /= Unset
     /\ DictGet(kwargs, KeyId).t = "int"
     /\ DictGet(kwargs, KeyId).n \in 1..10
     /\ StrWithin(DictGet(kwargs, KeyHeading), 100)
     /\ DictGet(kwargs, KeyPageRef).t \in {"missing", "none", "int"}
     /\ DictGet(kwargs, KeySummary).t = "str")
        => /\ instance.ok <=> Len(DictGet(kwargs, KeySummary).s) <= 150
           /\ instance.ok => instance.v.summary = DictGet(kwargs, KeySummary).s

\* a summary of exactly 150 characters, accepted as it is
C7_Witness ==
    /\ cls = "Note"
    /\ instance /= Unset
    /\ instance.ok
    /\ Len(instance.v.summary) = 150

\* s is JSON text
IsJson(s) == JsonLoads(s).ok

\* C8 as stated: for an argument that is JSON text the cleaned text is the
\* argument, and cleaning it again changes nothing.
C8_JsonUnchanged ==
    (Over /\ notes_json_str.t = "str" /\ IsJson(notes_json_str.s)) =>
        /\ cleaned_json = notes_json_str
        /\ Sanitize(cleaned_json.s) = cleaned_json.s

\* C8 as amended: for an argument that is the text of a JSON object with
\* no whitespace before or after it, the cleaned text is the argument, and
\* cleaning it again changes nothing.
C8_JsonObjectUnchanged ==
    (/\ Over
     /\ notes_json_str.t = "str"
     /\ StartsWith(notes_json_str.s, Brace)
     /\ notes_json_str.s[Len(notes_json_str.s)] \notin Whitespace
     /\ IsJson(notes_json_str.s))
        => /\ cleaned_json = notes_json_str
           /\ Sanitize(cleaned_json.s) = cleaned_json.s

\* a ten-note document handed over as it is
C8_Witness ==
    /\ pc = "returned"
    /\ exc = "none"
    /\ StartsWith(notes_json_str.s, Brace)
    /\ cleaned_json = notes_json_str

\* s holds no "{"
NoBrace(s) == Find(s, Brace) = -1

\* C9 as stated: an argument without "{" is cleaned to itself and fails to
\* parse.
C9_NoBraceUnchanged ==
    (Over /\ notes_json_str.t = "str" /\ NoBrace(notes_json_str.s)) =>
        /\ cleaned_json = notes_json_str
        /\ exc = "JSONDecodeError"

\* C9 as amended: an argument without "{" that has no whitespace around it
\* and does not start with a fence is cleaned to itself; the call returns
\* None and writes nothing, with a parse failure unless json.loads accepts
\* the text as a JSON value of its own (a number, a string, a literal, an
\* array), which then fails when handed to NotesResponse.
C9_NoBraceCleanUnchanged ==
    (/\ Over
     /\ notes_json_str.t = "str"
     /\ NoBrace(notes_json_str.s)
     /\ Strip(notes_json_str.s) = notes_json_str.s
     /\ ~StartsWith(notes_json_str.s, Fence))
        => /\ cleaned_json = notes_json_str
           /\ exc = IF IsJson(notes_json_str.s) THEN "TypeError"
                                                ELSE "JSONDecodeError"
           /\ result = PyNone
           /\ raised = "none"
           /\ writes = 0

\* "not json at all" came back unparsed
C9_Witness ==
    /\ pc = "returned"
    /\ notes_json_str =
          PyStr(<<"n", "o", "t", " ", "j", "s", "o", "n", " ", "a", "t", " ", "a", "l", "l">>)
    /\ cleaned_json = notes_json_str
    /\ exc = "JSONDecodeError"

\* C10: after a call that succeeded, the destination file parses as JSON
\* and NotesResponse accepts it, giving the notes that were returned,
\* field for field and in the same order.
C10_RoundTrip ==
    (pc = "returned" /\ exc = "none") =>
        /\ exam_notes.t = "file"
        /\ LET reread == JsonLoads(exam_notes.text)
           IN  /\ reread.ok
               /\ reread.v.t = "dict"
               /\ NotesResponse(reread.v.members).ok
               /\ Notes(NotesResponse(reread.v.members).v.notes) = result

\* a fenced response whose file holds an id written as a string
C10_Witness ==
    /\ pc = "returned"
    /\ exc = "none"
    /\ StartsWith(notes_json_str.s, Fence)
    /\ exam_notes.t = "file"
    /\ Len(result.notes) = 10
    /\ result.notes[2].id = 5

\* the characters of a language tag
TagChars ==
    {"a", "b", "c", "d", "e", "f", "g", "h", "i", "j", "k", "l", "m", "n", "o",
     "p", "q", "r", "s", "t", "u", "v", "w", "x", "y", "z"}

RECURSIVE TagEnd(_, _)

\* the 0-based index at which the language tag that starts at i ends
TagEnd(t, i) ==
    IF i < Len(t) /\ t[i + 1] \in TagChars THEN TagEnd(t, i + 1) ELSE i

\* the interior of a text that begins with a fence: what follows the
\* opening fence and its language tag, up to the last fence after them or,
\* when no fence follows, to the end of the text; trimmed
Interior(t) ==
    LET opening == TagEnd(t, 3)
        closing == RFind(t, Fence)
    IN  IF closing >= opening THEN Strip(Slice(t, opening, closing))
                              ELSE Strip(SliceFrom(t, opening))

\* x without what precedes its first "{"
FromFirstBrace(x) == IF NoBrace(x) THEN x ELSE SliceFrom(x, Find(x, Brace))

\* x is the text of a JSON object that NotesResponse accepts
IsNotesObject(x) ==
    /\ IsJson(x)
    /\ JsonLoads(x).v.t = "dict"
    /\ NotesResponse(JsonLoads(x).v.members).ok

\* the call parsed and validated x and the destination file holds it
Persisted(x) ==
    /\ exc = "none"
    /\ raised = "none"
    /\ writes = 1
    /\ result = Notes(NotesResponse(JsonLoads(x).v.members).v.notes)
    /\ exam_notes.t = "file"
    /\ JsonLoads(exam_notes.text) = JsonLoads(x)

\* the argument, trimmed, begins with a fence
Fenced == notes_json_str.t = "str" /\ StartsWith(Strip(notes_json_str.s), Fence)

\* C11 as stated: for an argument that, trimmed, begins with a fence, the
\* cleaned text is the interior of the fenced block (from its first "{" on,
\* if it has one), and an interior that is a valid ten-note object is
\* parsed, validated and written to the file.
C11_FenceRemoved ==
    (Over /\ Fenced) =>
        LET interior == Interior(Strip(notes_json_str.s))
        IN  /\ cleaned_json.s = FromFirstBrace(interior)
            /\ (IsNotesObject(interior) /\ disk = "ok") => Persisted(interior)

\* C11 as amended: the same for an argument whose interior holds a "{".
C11_FencedObjectKept ==
    (Over /\ Fenced /\ ~NoBrace(Interior(Strip(notes_json_str.s)))) =>
        LET interior == Interior(Strip(notes_json_str.s))
        IN  /\ cleaned_json.s = FromFirstBrace(interior)
            /\ (IsNotesObject(interior) /\ disk = "ok") => Persisted(interior)

\* ten notes behind an opening fence that is never closed were written
C11_Witness ==
    /\ pc = "returned"
    /\ Fenced
    /\ Cardinality(Occurrences(notes_json_str.s, Fence)) = 1
    /\ IsNotesObject(Interior(Strip(notes_json_str.s)))
    /\ disk = "ok"
    /\ Persisted(Interior(Strip(notes_json_str.s)))

\* the statuses of a run that is not over
Active == {"queued", "in_progress"}

\* the current run.status
Status == statuses[Len(statuses)]

\* the thread as listed holds a message of the assistant
HoldsAnswer ==
    /\ messages.t = "list"
    /\ \E i \in 1..Len(messages.items) : messages.items[i].role = "assistant"

\* C12: generate_notes_with_assistant reads the run again once for every
\* 'queued' or 'in_progress' status it sees and is in its loop exactly while
\* the status is one of the two; it goes on with the first other status;
\* it returns text only when that status is 'completed' and the thread
\* holds a message of the assistant, returns None with every other status
\* and with a completed run without such a message, and never returns
\* while the status is 'queued' or 'in_progress'.
C12_PollsWhileActive ==
    /\ \A i \in 1..(Len(statuses) - 1) : statuses[i] \in Active
    /\ statuses /= <<>> => retrieves = Len(statuses) - 1
    /\ gpc = "polling" => Status \in Active
    /\ (statuses /= <<>> /\ Status \in Active) => gpc \in {"polling", "raised"}
    /\ gpc = "listing" => Status = "completed"
    /\ gpc = "returned" =>
          /\ Status \notin Active
          /\ notes_content.t \in {"str", "none"}
          /\ notes_content.t = "str" => (Status = "completed" /\ HoldsAnswer)
          /\ (Status /= "completed" \/ ~HoldsAnswer) => notes_content = PyNone

\* the answer came back after the run was seen queued and then in progress
C12_Witness ==
    /\ gpc = "returned"
    /\ notes_content.t = "str"
    /\ retrieves >= 2
    /\ statuses[1] = "queued"
    /\ statuses[2] = "in_progress"
    /\ Status = "completed"

=============================================================================
